---- MODULE Spec2Model ----
(***************************************************************************)
(* A model of the Zebra patient-label printer (src/src/main.rs): the sysfs *)
(* discovery scan, the interactive collection of the label data, the ZPL   *)
(* rendering and the print loop with its operator-confirmed retry.         *)
(*                                                                         *)
(* Text is modelled as a sequence of characters, each character a          *)
(* one-character string; two characters outside ASCII stand for the        *)
(* multi-byte numeric characters char::is_numeric accepts: "u0663"         *)
(* (ARABIC-INDIC DIGIT THREE, 2 bytes of UTF-8) and "u0967" (DEVANAGARI    *)
(* DIGIT ONE, 3 bytes).                                                    *)
(***************************************************************************)
EXTENDS Integers, Sequences, FiniteSets, TLC

(***************************************************************************)
(* Bounds of the model.                                                    *)
(***************************************************************************)
\* The longest directory listing the discovery scan is given.
MaxEntries == 2
\* The number of print passes after which the operator stops accepting a retry.
MaxPasses == 2
\* The number of minutes the wall clock may advance during a run.
MaxClock == 1

(***************************************************************************)
(* Characters and strings.                                                 *)
(***************************************************************************)
AsciiDigits == {"0", "1", "2", "3", "4", "5", "6", "7", "8", "9"}

WideNumerics == {"u0663", "u0967"}

Whitespace == {" ", "\n", "\t"}

\* The UTF-8 length of a character.
ByteLen(c) == IF c = "u0663" THEN 2 ELSE IF c = "u0967" THEN 3 ELSE 1

\* char::is_numeric: the Unicode categories Nd, Nl, No.
IsNumeric(c) == c \in AsciiDigits \cup WideNumerics

DigitVal(c) ==
  CASE c = "0" -> 0 [] c = "1" -> 1 [] c = "2" -> 2 [] c = "3" -> 3
    [] c = "4" -> 4 [] c = "5" -> 5 [] c = "6" -> 6 [] c = "7" -> 7
    [] c = "8" -> 8 [] c = "9" -> 9

RECURSIVE NumVal(_)
\* The value of a sequence of ASCII digits read in base ten.
NumVal(s) ==
  IF s = <<>> THEN 0
  ELSE 10 * NumVal(SubSeq(s, 1, Len(s) - 1)) + DigitVal(s[Len(s)])

RECURSIVE Utf8Len(_)
\* str::len: the length in bytes.
Utf8Len(s) == IF s = <<>> THEN 0 ELSE ByteLen(Head(s)) + Utf8Len(Tail(s))

RECURSIVE TrimStart(_)
TrimStart(s) ==
  IF s # <<>> /\ Head(s) \in Whitespace THEN TrimStart(Tail(s)) ELSE s

RECURSIVE TrimEnd(_)
TrimEnd(s) ==
  IF s # <<>> /\ s[Len(s)] \in Whitespace
  THEN TrimEnd(SubSeq(s, 1, Len(s) - 1))
  ELSE s

\* str::trim
Trim(s) == TrimEnd(TrimStart(s))

LowerCase == <<"a", "b", "c", "d", "e", "f", "g", "h", "i", "j", "k", "l", "m",
               "n", "o", "p", "q", "r", "s", "t", "u", "v", "w", "x", "y", "z">>

UpperCase == <<"A", "B", "C", "D", "E", "F", "G", "H", "I", "J", "K", "L", "M",
               "N", "O", "P", "Q", "R", "S", "T", "U", "V", "W", "X", "Y", "Z">>

UpperChar(c) ==
  IF \E i \in 1..Len(LowerCase) : LowerCase[i] = c
  THEN UpperCase[CHOOSE i \in 1..Len(LowerCase) : LowerCase[i] = c]
  ELSE c

\* str::to_uppercase
to_uppercase(s) == [i \in 1..Len(s) |-> UpperChar(s[i])]

\* str::starts_with
starts_with(s, p) == Len(s) >= Len(p) /\ SubSeq(s, 1, Len(p)) = p

\* Option<T>
None == [tag |-> "None"]

Some(v) == [tag |-> "Some", val |-> v]

\* A panic raised inside a function that returns a value otherwise.
Panic == [tag |-> "Panic"]

\* read_input: the line read from standard input, its newline included, trimmed.
read_input(typed) == Trim(typed \o <<"\n">>)

(***************************************************************************)
(* Date normalization.                                                     *)
(***************************************************************************)
IsLeap(y) == (y % 4 = 0 /\ y % 100 # 0) \/ y % 400 = 0

DaysInMonth(y, m) ==
  IF m = 2 THEN (IF IsLeap(y) THEN 29 ELSE 28)
  ELSE IF m \in {4, 6, 9, 11} THEN 30 ELSE 31

\* NaiveDate::parse_from_str(.., "%Y-%m-%d") of "{year}-{month}-{day}": the
\* parser reads ASCII digits only, and the date must exist in the calendar.
NaiveDateParses(year, month, day) ==
  /\ \A i \in 1..Len(year) : year[i] \in AsciiDigits
  /\ \A i \in 1..Len(month) : month[i] \in AsciiDigits
  /\ \A i \in 1..Len(day) : day[i] \in AsciiDigits
  /\ Len(year) = 4 /\ Len(month) = 2 /\ Len(day) = 2
  /\ NumVal(month) \in 1..12
  /\ NumVal(day) \in 1..DaysInMonth(NumVal(year), NumVal(month))

RECURSIVE CharsUpTo(_, _)
\* The number of leading characters of s that make up exactly n bytes, or -1
\* when byte n is not a character boundary of s.
CharsUpTo(s, n) ==
  IF n = 0 THEN 0
  ELSE IF s = <<>> \/ ByteLen(Head(s)) > n THEN -1
  ELSE LET r == CharsUpTo(Tail(s), n - ByteLen(Head(s)))
       IN IF r = -1 THEN -1 ELSE r + 1

\* &s[from..to], byte offsets; Panic when an offset is not a character boundary.
ByteSlice(s, from, to) ==
  LET a == CharsUpTo(s, from)
      b == CharsUpTo(s, to)
  IN IF a = -1 \/ b = -1 THEN Panic ELSE Some(SubSeq(s, a + 1, b))

\* format_date_ddmmyyyy without the calendar check.
format_date_ddmmyyyy_NoCalendar(input) ==
  LET cleaned == SelectSeq(input, LAMBDA c : c \in AsciiDigits)
  IN IF Len(cleaned) = 8
     THEN Some(SubSeq(cleaned, 1, 2) \o <<"/">> \o SubSeq(cleaned, 3, 4) \o <<"/">>
                 \o SubSeq(cleaned, 5, 8))
     ELSE None

format_date_ddmmyyyy(input) ==
  LET cleaned == SelectSeq(input, IsNumeric)
  IN IF Utf8Len(cleaned) = 8
     THEN LET day == ByteSlice(cleaned, 0, 2)
              month == ByteSlice(cleaned, 2, 4)
              year == ByteSlice(cleaned, 4, 8)
          IN IF day = Panic \/ month = Panic \/ year = Panic THEN Panic
             ELSE IF NaiveDateParses(year.val, month.val, day.val)
             THEN Some(day.val \o <<"/">> \o month.val \o <<"/">> \o year.val)
             ELSE None
     ELSE None

(***************************************************************************)
(* The device-class namespace and the discovery scan.                      *)
(***************************************************************************)
ZEBRA_VENDOR_ID == <<"0", "a", "5", "f">>

lp0 == <<"l", "p", "0">>

lp1 == <<"l", "p", "1">>

hiddev0 == <<"h", "i", "d", "d", "e", "v", "0">>

ZebraText == <<"0", "a", "5", "f", "\n">>

OtherText == <<"f", "f", "f", "f", "\n">>

ProductText == <<"0", "0", "a", "1", "\n">>

\* One entry of /sys/class/usbmisc as read_dir yields it: readable is false
\* for an entry read_dir reports as an error; device, canon say whether
\* read_link and canonicalize succeed; idVendor, idProduct are the text of
\* the attribute files, None when the file cannot be read.
DirEntry(name, readable, device, canon, idVendor, idProduct) ==
  [name |-> name, readable |-> readable, device |-> device, canon |-> canon,
   idVendor |-> idVendor, idProduct |-> idProduct]

EntriesNamed(name) ==
  { DirEntry(name, TRUE, TRUE, TRUE, Some(ZebraText), Some(ProductText)),
    DirEntry(name, TRUE, TRUE, TRUE, Some(OtherText), Some(ProductText)),
    DirEntry(name, TRUE, FALSE, TRUE, Some(ZebraText), Some(ProductText)),
    DirEntry(name, TRUE, TRUE, FALSE, Some(ZebraText), Some(ProductText)),
    DirEntry(name, TRUE, TRUE, TRUE, None, Some(ProductText)),
    DirEntry(name, TRUE, TRUE, TRUE, Some(ZebraText), None) }

EntryKinds ==
  EntriesNamed(lp0) \cup EntriesNamed(lp1)
    \cup { DirEntry(hiddev0, TRUE, TRUE, TRUE, Some(ZebraText), Some(ProductText)),
           DirEntry(<<"l", "p", "2">>, FALSE, TRUE, TRUE, Some(ZebraText),
                    Some(ProductText)) }

\* The listings of at most MaxEntries entries, in every enumeration order;
\* the names of a directory's entries are distinct.
Listings ==
  UNION { { l \in [1..n -> EntryKinds] :
              \A i, j \in 1..n : i # j => l[i].name # l[j].name } :
          n \in 0..MaxEntries }

\* The state of /sys/class/usbmisc: whether it exists, whether read_dir
\* succeeds on it, and what it lists.
Directories ==
  { [exists |-> FALSE, read_dir |-> FALSE, entries |-> <<>>],
    [exists |-> TRUE, read_dir |-> FALSE, entries |-> <<>>] }
    \cup { [exists |-> TRUE, read_dir |-> TRUE, entries |-> l] : l \in Listings }

\* The directories the whole-session specification starts from.
SessionDirectories ==
  { [exists |-> FALSE, read_dir |-> FALSE, entries |-> <<>>],
    [exists |-> TRUE, read_dir |-> TRUE, entries |->
       << DirEntry(lp0, TRUE, TRUE, TRUE, Some(OtherText), Some(ProductText)),
          DirEntry(lp1, TRUE, TRUE, TRUE, Some(ZebraText), Some(ProductText)) >>],
    [exists |-> TRUE, read_dir |-> TRUE, entries |->
       << DirEntry(lp1, TRUE, TRUE, TRUE, Some(ZebraText), None) >>] }

\* read_sysfs_file
read_sysfs_file(file) == IF file = None THEN None ELSE Some(Trim(file.val))

DevicePath(device_name) == <<"/dev/usb/">> \o device_name

\* The entry's resolution reaches the reading of the attribute files.
Resolves(entry) == entry.device /\ entry.canon

\* HasIdentity that is content with the vendor attribute.
HasIdentity_VendorOnly(entry) == read_sysfs_file(entry.idVendor) # None

\* The attribute files of the entry yield a candidate.
HasIdentity(entry) ==
  /\ read_sysfs_file(entry.idVendor) # None
  /\ read_sysfs_file(entry.idProduct) # None

\* The body of the scan loop: the list of printers after one entry.
ScanEntry(found, entry) ==
  IF ~entry.readable THEN found
  ELSE IF ~starts_with(entry.name, <<"l", "p">>) THEN found
  ELSE IF Resolves(entry) /\ HasIdentity(entry)
  THEN Append(found, [device_path |-> DevicePath(entry.name),
                      vendor_id |-> read_sysfs_file(entry.idVendor).val])
  ELSE found

\* ScanStep that gives the scan up at the first entry it cannot use.
ScanStep_AbortOnSkip(found, remaining) ==
  IF ScanEntry(found, Head(remaining)) = found
  THEN [printers |-> found, entries |-> <<>>]
  ELSE [printers |-> ScanEntry(found, Head(remaining)), entries |-> Tail(remaining)]

\* One turn of `for entry in entries.flatten()`: the printers found so far and
\* the entries still to come, after the first of `remaining` is examined.
ScanStep(found, remaining) ==
  [printers |-> ScanEntry(found, Head(remaining)), entries |-> Tail(remaining)]

RECURSIVE ScanAll(_, _)
\* The scan loop run to its end.
ScanAll(found, remaining) ==
  IF remaining = <<>> THEN found
  ELSE ScanAll(ScanStep(found, remaining).printers, ScanStep(found, remaining).entries)

\* detect_printers as a function of the directory.
detect_printers(d) ==
  IF ~d.exists THEN <<>>
  ELSE IF ~d.read_dir THEN <<>>
  ELSE ScanAll(<<>>, d.entries)

\* FindZebra that takes the first printer found, whatever its vendor.
FindZebra_FirstPrinter(found) ==
  IF found # <<>> THEN Some(found[1].device_path) ELSE None

\* Iterator::find(|p| p.vendor_id == ZEBRA_VENDOR_ID).map(|p| p.device_path)
FindZebra(found) ==
  IF \E i \in 1..Len(found) : found[i].vendor_id = ZEBRA_VENDOR_ID
  THEN LET first == CHOOSE i \in 1..Len(found) :
                      /\ found[i].vendor_id = ZEBRA_VENDOR_ID
                      /\ \A j \in 1..(i - 1) : found[j].vendor_id # ZEBRA_VENDOR_ID
       IN Some(found[first].device_path)
  ELSE None

FallbackPath == <<"/dev/usb/", "l", "p", "0">>

\* ChoosePath that ignores what was detected.
ChoosePath_AlwaysDefault(detected) == [path |-> FallbackPath, notice |-> "default"]

\* main's choice of the device path, with the notice it prints.
ChoosePath(detected) ==
  IF detected # None
  THEN [path |-> detected.val, notice |-> "detected"]
  ELSE [path |-> FallbackPath, notice |-> "default"]

(***************************************************************************)
(* Rendering.                                                              *)
(***************************************************************************)
\* A text field of the document: ^FO<x>,<y>^A0N,25,25^FD<text>^FS
TextField(x, y, text) == [cmd |-> "^FO^A0N,25,25^FD^FS", x |-> x, y |-> y, text |-> text]

\* The barcode field: ^FO<x>,<y>^BY3^BCN,70,Y,N,N,A^FD<text>^FS
BarcodeField(x, y, text) ==
  [cmd |-> "^FO^BY3^BCN,70,Y,N,N,A^FD^FS", x |-> x, y |-> y, text |-> text]

XA == [cmd |-> "^XA", x |-> 0, y |-> 0, text |-> <<>>]

XZ == [cmd |-> "^XZ", x |-> 0, y |-> 0, text |-> <<>>]

\* Local::now().format("%d/%m/%Y, %H:%M") at `minute` minutes past 23:59 of
\* the 30th of December 2026.
FormatNow(minute) ==
  IF minute = 0
  THEN <<"3", "0", "/", "1", "2", "/", "2", "0", "2", "6", ",", " ", "2", "3", ":", "5", "9">>
  ELSE LET m == minute - 1
           digit == <<"0", "1", "2", "3", "4", "5", "6", "7", "8", "9">>
       IN <<"3", "1", "/", "1", "2", "/", "2", "0", "2", "6", ",", " ", "0", "0", ":",
            digit[(m \div 10) + 1], digit[(m % 10) + 1]>>

VARIABLES
  pc,               \* where main stands
  dir,              \* /sys/class/usbmisc
  entries,          \* detect_printers: the entries read_dir has yet to yield
  printers,         \* detect_printers: the printers found so far
  detected_printer, \* main: what find_zebra_printer returned
  printer_path,     \* main: the device path of the session
  notice,           \* the line main printed about the detection
  data,             \* the label data
  last_input,       \* what the last read_input returned
  number,           \* the parsed copy count
  zpl,              \* the rendered document
  unsuccsessful,    \* the flag of the print loop
  x,                \* the copies of the pass written so far
  pass,             \* the number of the pass under way
  handle,           \* print_label's file: "open" or "closed"
  log,              \* every finished call of print_label, in order
  stderr,           \* every error report, in order
  rendered,         \* the number of times generate_zpl was called
  asked,            \* the passes after which the retry question was asked
  examined,         \* the number of directory entries the scan has examined
  panic_msg,        \* the message of the panic that ended the program, or ""
  clock,            \* the wall clock, in minutes
  exit_code         \* the exit status, -1 while the program runs

\* generate_zpl that upper-cases the barcode like the other fields.
generate_zpl_UpperBarcode(d) ==
  LET name == TextField(40, 30, to_uppercase(d.last_name) \o <<",", " ">>
                                  \o to_uppercase(d.first_name))
      birth == TextField(40, 55, <<"D", "O", "B", ":", " ">> \o d.dob \o <<",", " ">>
                                   \o to_uppercase(d.gender))
      date == TextField(40, 80, <<"D", "a", "t", "e", ":", " ">> \o d.current_datetime)
  IN IF d.barcode_bool
     THEN <<XA, name, birth, date, BarcodeField(40, 105, to_uppercase(d.barcode)), XZ>>
     ELSE <<XA, name, birth, date, XZ>>

\* generate_zpl that takes the timestamp when the document is rendered.
generate_zpl_ClockAtRender(d) ==
  LET name == TextField(40, 30, to_uppercase(d.last_name) \o <<",", " ">>
                                  \o to_uppercase(d.first_name))
      birth == TextField(40, 55, <<"D", "O", "B", ":", " ">> \o d.dob \o <<",", " ">>
                                   \o to_uppercase(d.gender))
      date == TextField(40, 80, <<"D", "a", "t", "e", ":", " ">> \o FormatNow(clock))
  IN IF d.barcode_bool
     THEN <<XA, name, birth, date, BarcodeField(40, 105, d.barcode), XZ>>
     ELSE <<XA, name, birth, date, XZ>>

\* The document as the sequence of its lines.
generate_zpl(d) ==
  LET name == TextField(40, 30, to_uppercase(d.last_name) \o <<",", " ">>
                                  \o to_uppercase(d.first_name))
      birth == TextField(40, 55, <<"D", "O", "B", ":", " ">> \o d.dob \o <<",", " ">>
                                   \o to_uppercase(d.gender))
      date == TextField(40, 80, <<"D", "a", "t", "e", ":", " ">> \o d.current_datetime)
  IN IF d.barcode_bool
     THEN <<XA, name, birth, date, BarcodeField(40, 105, d.barcode), XZ>>
     ELSE <<XA, name, birth, date, XZ>>

(***************************************************************************)
(* Parsing the copy count.                                                 *)
(***************************************************************************)
I32Max == 2147483647

RECURSIVE Magnitude(_, _)
\* The digits read left to right with checked arithmetic: the value of
\* `digits` after the accumulated `acc`, or -1 once it exceeds I32Max.
Magnitude(acc, digits) ==
  IF digits = <<>> THEN acc
  ELSE IF acc > (I32Max - DigitVal(Head(digits))) \div 10 THEN -1
  ELSE Magnitude(10 * acc + DigitVal(Head(digits)), Tail(digits))

\* ParseI32 that falls back to one copy when the text is no number.
ParseI32_OrOne(s) ==
  IF s # <<>> /\ \A i \in 1..Len(s) : s[i] \in AsciiDigits /\ Len(s) < 10
  THEN Some(NumVal(s))
  ELSE Some(1)

\* str::parse::<i32>: an optional sign, then one or more ASCII digits, the
\* value within the range of i32.
ParseI32(s) ==
  LET signed == s # <<>> /\ Head(s) \in {"+", "-"}
      negative == signed /\ Head(s) = "-"
      digits == IF signed THEN Tail(s) ELSE s
  IN IF digits = <<>> \/ \E i \in 1..Len(digits) : digits[i] \notin AsciiDigits
     THEN None
     ELSE IF negative /\ Magnitude(0, SubSeq(digits, 1, Len(digits) - 1)) # -1
                      /\ Magnitude(0, SubSeq(digits, 1, Len(digits) - 1))
                           <= (I32Max - 7) \div 10
                      /\ Magnitude(0, SubSeq(digits, 1, Len(digits) - 1))
                           = I32Max \div 10
                      /\ digits[Len(digits)] = "8"
     THEN Some(0 - I32Max - 1)
     ELSE IF Magnitude(0, digits) = -1 THEN None
     ELSE Some(IF negative THEN 0 - Magnitude(0, digits) ELSE Magnitude(0, digits))

\* BarcodeYes that takes the word too, as the retry question does.
BarcodeYes_Word(answer) == answer \in { <<"Y">>, <<"y">>, <<"y", "e", "s">> }

\* The barcode question: matches!(.., "Y" | "y")
BarcodeYes(answer) == answer \in { <<"Y">>, <<"y">> }

\* RetryYes that knows the letter only, as the barcode question does.
RetryYes_LetterOnly(answer) == answer \in { <<"y">>, <<"Y">> }

\* RetryYes that ignores the letter case.
RetryYes_AnyCase(answer) == to_uppercase(answer) \in { <<"Y">>, <<"Y", "E", "S">> }

\* The retry question: "y" | "Y" | "yes" => continue
RetryYes(answer) == answer \in { <<"y">>, <<"Y">>, <<"y", "e", "s">> }

(***************************************************************************)
(* The lines the operator types.                                           *)
(***************************************************************************)
FirstNameLines == { <<"A", "n", "n", " ">> }

LastNameLines == { <<"l", "e", "e">> }

DobLines ==
  { <<"0", "5", "0", "8", "1", "9", "9", "0">>,
    <<"0", "5", "/", "0", "8", "/", "1", "9", "9", "0">>,
    <<"2", "9", "0", "2", "1", "9", "0", "0">>,
    <<"2", "9", "0", "2", "2", "0", "0", "0">>,
    <<"3", "1", "0", "4", "2", "0", "0", "1">>,
    <<"0", "5", "0", "8", "1", "9", "9">>,
    <<"a", "b", "c">>,
    <<"u0663", "u0663", "u0663", "u0663">>,
    <<"0", "u0663", "0", "8", "1", "9", "9">>,
    <<"u0967", "5", "0", "8", "1", "9">> }

GenderLines == { <<"f">> }

YesNoLines ==
  { <<"y">>, <<"Y">>, <<"y", "e", "s">>, <<"Y", "E", "S">>, <<"Y", "e", "s">>,
    <<" ", "y">>, <<"n">>, <<"N">>, <<>> }

\* The answers to the retry question.
RetryLines ==
  { <<"y">>, <<"Y">>, <<"y", "e", "s">>, <<" ", "y">>, <<"Y", "E", "S">>, <<"n">> }

BarcodeLines == { <<"a", "1">>, <<"0">> }

NumLabelLines ==
  { <<"3">>, <<"+", "1">>, <<"0">>, <<"-", "1">>, <<"t", "w", "o">>, <<>>,
    <<"2", ".", "5">>, <<"2", "1", "4", "7", "4", "8", "3", "6", "4", "8">> }

\* find_zebra_printer as a function of the directory.
find_zebra_printer(d) == FindZebra(detect_printers(d))

\* What an open, a write_all or a flush of the device node may return.
IoResults == {"ok", "err"}

(***************************************************************************)
(* The print loop's decisions.                                             *)
(***************************************************************************)
\* MatchResult without the break on an error: the loop goes on to the next copy.
MatchResult_NoBreak(res, copy, copies) ==
  [unsuccsessful |-> res # "ok", x |-> copy + 1, again |-> copy + 1 < copies]

\* The match with a flag that a failure sets only when no copy of the pass
\* has succeeded before it.
MatchResult_StaleFlag(res, copy, copies) ==
  IF res = "ok"
  THEN [unsuccsessful |-> FALSE, x |-> copy + 1, again |-> copy + 1 < copies]
  ELSE [unsuccsessful |-> copy = 0, x |-> copy, again |-> FALSE]

\* The match on print_label's result for copy number `copy` + 1 of `copies`:
\* the flag, the loop counter, and whether the for loop goes on.
MatchResult(res, copy, copies) ==
  IF res = "ok"
  THEN [unsuccsessful |-> FALSE, x |-> copy + 1, again |-> copy + 1 < copies]
  ELSE [unsuccsessful |-> TRUE, x |-> copy, again |-> FALSE]

\* ForLoopEnters of a loop that runs its body once before testing the range.
ForLoopEnters_AtLeastOnce(copies) == TRUE

\* `for _x in 0..number`: the body runs only when the range is not empty.
ForLoopEnters(copies) == copies > 0

\* ExitStatus of a program that catches its panics and returns from main.
ExitStatus_AlwaysZero(panicked) == 0

\* The exit status of the process: 0 when main returns, 101 after a panic.
ExitStatus(panicked) == IF panicked THEN 101 ELSE 0

\* HandleAfter that leaves the file open when the write or the flush fails.
HandleAfter_LeakOnError(step, ok) ==
  IF step = "open" THEN (IF ok THEN "open" ELSE "closed")
  ELSE IF step = "write" THEN "open"
  ELSE IF ok THEN "closed" ELSE "open"

\* print_label's file after a step: opened by a successful open, dropped
\* when `?` returns the error of write_all or flush, and when Ok(()) is returned.
HandleAfter(step, ok) ==
  IF step = "open" THEN (IF ok THEN "open" ELSE "closed")
  ELSE IF step = "write" THEN (IF ok THEN "open" ELSE "closed")
  ELSE "closed"

\* AfterPass that leaves the loop whatever the flag says.
AfterPass_NoPrompt(flag) == "done"

\* A loop with a bound of its own: after the second pass it gives up.
AfterPass_GiveUp(flag) == IF flag /\ pass < 2 THEN "try_again" ELSE "done"

\* After the for loop: prompt for a retry, or leave the loop.
AfterPass(flag) == IF flag THEN "try_again" ELSE "done"

(***************************************************************************)
(* The state.                                                              *)
(***************************************************************************)
vars == <<pc, dir, entries, printers, detected_printer, printer_path, notice,
          data, last_input, number, zpl, unsuccsessful, x, pass, handle, log,
          stderr, rendered, asked, examined, panic_msg, clock, exit_code>>

scanVars == <<entries, printers, detected_printer, printer_path, notice, examined>>

printVars ==
  <<number, zpl, unsuccsessful, x, pass, handle, log, stderr, rendered, asked>>

EmptyData ==
  [first_name |-> <<>>, last_name |-> <<>>, dob |-> <<>>, gender |-> <<>>,
   current_datetime |-> <<>>, barcode_bool |-> FALSE, barcode |-> <<>>]

InitProgram ==
  /\ pc = "start"
  /\ entries = <<>>
  /\ printers = <<>>
  /\ detected_printer = None
  /\ printer_path = <<>>
  /\ notice = "none"
  /\ data = EmptyData
  /\ last_input = <<>>
  /\ number = 0
  /\ zpl = <<>>
  /\ unsuccsessful = FALSE
  /\ x = 0
  /\ pass = 0
  /\ handle = "closed"
  /\ log = <<>>
  /\ stderr = <<>>
  /\ rendered = 0
  /\ asked = {}
  /\ examined = 0
  /\ panic_msg = ""
  /\ clock = 0
  /\ exit_code = -1

Init == dir \in SessionDirectories /\ InitProgram

ScanInit == dir \in Directories /\ InitProgram

(***************************************************************************)
(* Discovery.                                                              *)
(***************************************************************************)
\* detect_printers up to the loop: an absent root or a failed read_dir
\* returns the empty list.
DetectStart ==
  /\ pc = "start"
  /\ IF dir.exists /\ dir.read_dir
     THEN pc' = "scan" /\ entries' = dir.entries
     ELSE pc' = "detected" /\ entries' = <<>>
  /\ printers' = <<>>
  /\ UNCHANGED <<dir, detected_printer, printer_path, notice, examined, data,
                 last_input, printVars, panic_msg, clock, exit_code>>

\* One turn of the scan loop.
DetectEntry ==
  /\ pc = "scan"
  /\ entries # <<>>
  /\ printers' = ScanStep(printers, entries).printers
  /\ entries' = ScanStep(printers, entries).entries
  /\ examined' = examined + 1
  /\ UNCHANGED <<pc, dir, detected_printer, printer_path, notice, data, last_input,
                 printVars, panic_msg, clock, exit_code>>

\* The iterator is exhausted: detect_printers returns.
DetectEnd ==
  /\ pc = "scan"
  /\ entries = <<>>
  /\ pc' = "detected"
  /\ UNCHANGED <<dir, scanVars, data, last_input, printVars, panic_msg, clock,
                 exit_code>>

\* find_zebra_printer's find, and main's choice of the path.
Locate ==
  /\ pc = "detected"
  /\ detected_printer' = FindZebra(printers)
  /\ printer_path' = ChoosePath(FindZebra(printers)).path
  /\ notice' = ChoosePath(FindZebra(printers)).notice
  /\ pc' = "first_name"
  /\ UNCHANGED <<dir, entries, printers, examined, data, last_input, printVars,
                 panic_msg, clock, exit_code>>

(***************************************************************************)
(* Collecting the label data.                                              *)
(***************************************************************************)
ReadFirstName ==
  /\ pc = "first_name"
  /\ \E typed \in FirstNameLines :
       /\ last_input' = read_input(typed)
       /\ data' = [data EXCEPT !.first_name = read_input(typed)]
  /\ pc' = "last_name"
  /\ UNCHANGED <<dir, scanVars, printVars, panic_msg, clock, exit_code>>

ReadLastName ==
  /\ pc = "last_name"
  /\ \E typed \in LastNameLines :
       /\ last_input' = read_input(typed)
       /\ data' = [data EXCEPT !.last_name = read_input(typed)]
  /\ pc' = "dob"
  /\ UNCHANGED <<dir, scanVars, printVars, panic_msg, clock, exit_code>>

\* One turn of the date-of-birth loop.
ReadDob ==
  /\ pc = "dob"
  /\ \E typed \in DobLines :
       LET formatted == format_date_ddmmyyyy(read_input(typed))
       IN /\ last_input' = read_input(typed)
          /\ IF formatted.tag = "Some"
             THEN /\ data' = [data EXCEPT !.dob = formatted.val]
                  /\ pc' = "gender"
                  /\ UNCHANGED <<panic_msg, exit_code>>
             ELSE IF formatted.tag = "None"
             THEN /\ data' = data
                  /\ pc' = "dob"
                  /\ UNCHANGED <<panic_msg, exit_code>>
             ELSE /\ data' = data
                  /\ pc' = "done"
                  /\ panic_msg' = "byte index is not a char boundary"
                  /\ exit_code' = ExitStatus(TRUE)
  /\ UNCHANGED <<dir, scanVars, printVars, clock>>

\* The gender, and the timestamp taken right after it.
ReadGender ==
  /\ pc = "gender"
  /\ \E typed \in GenderLines :
       /\ last_input' = read_input(typed)
       /\ data' = [data EXCEPT !.gender = read_input(typed),
                               !.current_datetime = FormatNow(clock)]
  /\ pc' = "barcode_bool"
  /\ UNCHANGED <<dir, scanVars, printVars, panic_msg, clock, exit_code>>

\* The barcode question; the barcode starts as the sentinel "0".
ReadBarcodeBool ==
  /\ pc = "barcode_bool"
  /\ \E typed \in YesNoLines :
       /\ last_input' = read_input(typed)
       /\ data' = [data EXCEPT !.barcode_bool = BarcodeYes(read_input(typed)),
                               !.barcode = <<"0">>]
       /\ pc' = IF BarcodeYes(read_input(typed)) THEN "barcode" ELSE "num_labels"
  /\ UNCHANGED <<dir, scanVars, printVars, panic_msg, clock, exit_code>>

ReadBarcode ==
  /\ pc = "barcode"
  /\ \E typed \in BarcodeLines :
       /\ last_input' = read_input(typed)
       /\ data' = [data EXCEPT !.barcode = read_input(typed)]
  /\ pc' = "num_labels"
  /\ UNCHANGED <<dir, scanVars, printVars, panic_msg, clock, exit_code>>

\* The copy count, the rendering, and the entry into the print loop.
ReadNumLabels ==
  /\ pc = "num_labels"
  /\ \E typed \in NumLabelLines :
       LET parsed == ParseI32(Trim(read_input(typed)))
       IN /\ last_input' = read_input(typed)
          /\ IF parsed = None
             THEN /\ pc' = "done"
                  /\ panic_msg' = "Please enter a valid integer"
                  /\ exit_code' = ExitStatus(TRUE)
                  /\ UNCHANGED <<number, zpl, rendered, pass, asked>>
             ELSE /\ number' = parsed.val
                  /\ zpl' = generate_zpl(data)
                  /\ rendered' = rendered + 1
                  /\ pass' = 1
                  /\ pc' = IF ForLoopEnters(parsed.val) THEN "print_open"
                           ELSE AfterPass(FALSE)
                  /\ asked' = IF ForLoopEnters(parsed.val) \/ AfterPass(FALSE) # "try_again"
                              THEN asked ELSE asked \cup {1}
                  /\ panic_msg' = panic_msg
                  /\ exit_code' = IF ForLoopEnters(parsed.val) \/ AfterPass(FALSE) # "done"
                                  THEN exit_code ELSE ExitStatus(FALSE)
  /\ unsuccsessful' = FALSE
  /\ x' = 0
  /\ UNCHANGED <<dir, scanVars, data, handle, log, stderr, clock>>

(***************************************************************************)
(* Printing.                                                               *)
(***************************************************************************)
\* print_label returns `res` for the copy under way, and main matches on it.
Finish(res) ==
  LET m == MatchResult(res, x, number)
      next == IF m.again THEN "print_open" ELSE AfterPass(m.unsuccsessful)
  IN /\ log' = Append(log, [pass |-> pass, copy |-> x + 1, path |-> printer_path,
                            doc |-> zpl, res |-> res])
     /\ stderr' = IF res = "ok" THEN stderr
                  ELSE Append(stderr, [pass |-> pass, error |-> res,
                                       path |-> printer_path])
     /\ unsuccsessful' = m.unsuccsessful
     /\ x' = m.x
     /\ pc' = next
     /\ asked' = IF next = "try_again" THEN asked \cup {pass} ELSE asked
     /\ exit_code' = IF next = "done" THEN ExitStatus(FALSE) ELSE exit_code

\* OpenOptions::new().write(true).open(printer_path)?
PrintOpen ==
  /\ pc = "print_open"
  /\ \E r \in IoResults :
       IF r = "ok"
       THEN /\ handle' = HandleAfter("open", TRUE)
            /\ pc' = "print_write"
            /\ UNCHANGED <<log, stderr, unsuccsessful, x, asked, exit_code>>
       ELSE /\ handle' = HandleAfter("open", FALSE)
            /\ Finish("open_err")
  /\ UNCHANGED <<dir, scanVars, data, last_input, number, zpl, pass, rendered,
                 panic_msg, clock>>

\* file.write_all(zpl.as_bytes())?
PrintWrite ==
  /\ pc = "print_write"
  /\ \E r \in IoResults :
       IF r = "ok"
       THEN /\ pc' = "print_flush"
            /\ handle' = HandleAfter("write", TRUE)
            /\ UNCHANGED <<log, stderr, unsuccsessful, x, asked, exit_code>>
       ELSE /\ handle' = HandleAfter("write", FALSE)
            /\ Finish("write_err")
  /\ UNCHANGED <<dir, scanVars, data, last_input, number, zpl, pass, rendered,
                 panic_msg, clock>>

\* file.flush()?; Ok(()): the file is dropped on either way out.
PrintFlush ==
  /\ pc = "print_flush"
  /\ \E r \in IoResults :
       /\ handle' = HandleAfter("flush", r = "ok")
       /\ Finish(IF r = "ok" THEN "ok" ELSE "flush_err")
  /\ UNCHANGED <<dir, scanVars, data, last_input, number, zpl, pass, rendered,
                 panic_msg, clock>>

\* The retry question. The operator accepts at most MaxPasses - 1 retries.
ReadTryAgain ==
  /\ pc = "try_again"
  /\ \E typed \in RetryLines :
       /\ RetryYes(read_input(typed)) => pass < MaxPasses
       /\ last_input' = read_input(typed)
       /\ IF RetryYes(read_input(typed))
          THEN /\ pass' = pass + 1
               /\ x' = 0
               /\ pc' = IF ForLoopEnters(number) THEN "print_open"
                        ELSE AfterPass(unsuccsessful)
               /\ asked' = IF ForLoopEnters(number) \/ AfterPass(unsuccsessful) # "try_again"
                           THEN asked ELSE asked \cup {pass + 1}
               /\ exit_code' = IF ForLoopEnters(number) \/ AfterPass(unsuccsessful) # "done"
                               THEN exit_code ELSE ExitStatus(FALSE)
          ELSE /\ pc' = "done"
               /\ exit_code' = ExitStatus(FALSE)
               /\ UNCHANGED <<pass, x, asked>>
  /\ UNCHANGED <<dir, scanVars, data, number, zpl, unsuccsessful, handle, log,
                 stderr, rendered, panic_msg, clock>>

\* A minute passes.
Tick ==
  /\ pc # "done"
  /\ clock < MaxClock
  /\ clock' = clock + 1
  /\ UNCHANGED <<pc, dir, scanVars, data, last_input, printVars, panic_msg,
                 exit_code>>

ScanNext == DetectStart \/ DetectEntry \/ DetectEnd \/ Locate

Next ==
  \/ DetectStart
  \/ DetectEntry
  \/ DetectEnd
  \/ Locate
  \/ ReadFirstName
  \/ ReadLastName
  \/ ReadDob
  \/ ReadGender
  \/ ReadBarcodeBool
  \/ ReadBarcode
  \/ ReadNumLabels
  \/ PrintOpen
  \/ PrintWrite
  \/ PrintFlush
  \/ ReadTryAgain
  \/ Tick

\* The whole session.
Spec == Init /\ [][Next]_vars

\* The discovery scan and the choice of the path, over every directory.
ScanSpec == ScanInit /\ [][ScanNext]_vars

(***************************************************************************)
(* The properties.                                                         *)
(***************************************************************************)
\* The calls of print_label of pass p, as indices of the log.
CallsOf(p) == { i \in 1..Len(log) : log[i].pass = p }

FailedCallsOf(p) == { i \in CallsOf(p) : log[i].res # "ok" }

OkCalls == { i \in 1..Len(log) : log[i].res = "ok" }

PrintingPcs == {"print_open", "print_write", "print_flush"}

\* The answers the retry question takes as a yes, as the specification lists them.
SpecRetryYes == { <<"y">>, <<"Y">>, <<"y", "e", "s">> }

\* C1: within a pass, a failed call of print_label is the last call of that
\* pass (no call for a later copy follows it, finished or under way), the
\* flag records the failure, and the error is reported together with the
\* device path.
C1_FailureEndsPass ==
  \A i \in 1..Len(log) :
    log[i].res # "ok" =>
      /\ \A j \in 1..Len(log) : j > i => log[j].pass > log[i].pass
      /\ \E k \in 1..Len(stderr) :
           /\ stderr[k].pass = log[i].pass
           /\ stderr[k].error = log[i].res
           /\ stderr[k].path = log[i].path
      /\ log[i].pass = pass => unsuccsessful /\ pc \in {"try_again", "done"}

\* C1 witness: of three copies the first is written, the second fails, and
\* the retry question is up with no third call made.
C1_Witness ==
  /\ number = 3
  /\ pc = "try_again"
  /\ Len(log) = 2
  /\ log[1].res = "ok"
  /\ log[2].res = "write_err"
  /\ log[2].copy = 2

\* C2: a session that has ended ended normally; it ended without the retry
\* question after its last pass exactly when that pass had no failed write,
\* and then every one of its `copies` writes succeeded; otherwise the
\* question was asked and declined. Every pass with a failed write is
\* followed by the retry question.
C2_PromptIffFailure ==
  /\ \A i \in 1..Len(log) : log[i].res # "ok" => log[i].pass \in asked
  /\ \A p \in asked : FailedCallsOf(p) # {}
  /\ pc = "try_again" => pass \in asked
  /\ (pc = "done" /\ pass >= 1) =>
       /\ exit_code = 0
       /\ pass \notin asked <=> FailedCallsOf(pass) = {}
       /\ FailedCallsOf(pass) = {} =>
            Cardinality(CallsOf(pass)) = (IF number > 0 THEN number ELSE 0)
       /\ FailedCallsOf(pass) # {} => last_input \notin SpecRetryYes

\* C2 witness: the first pass failed and was retried, the second pass wrote
\* all three copies, and the session ended with no second question.
C2_Witness ==
  /\ pc = "done"
  /\ number = 3
  /\ pass = 2
  /\ asked = {1}
  /\ Cardinality(CallsOf(2)) = 3

\* C3: the step that answers the retry question with "y", "Y" or "yes"
\* starts the next pass at copy 1 with the same document, device path and
\* copy count; the copies of every pass are numbered from 1, whatever the
\* earlier passes wrote.
C3_RetryRestarts ==
  /\ [][(pc = "try_again" /\ pc' # "try_again" /\ last_input' \in SpecRetryYes) =>
          /\ pc' = "print_open"
          /\ x' = 0
          /\ pass' = pass + 1
          /\ number' = number
          /\ zpl' = zpl
          /\ printer_path' = printer_path]_vars
  /\ [](\A i \in 1..Len(log) :
          /\ log[i].copy = Cardinality({ j \in CallsOf(log[i].pass) : j < i }) + 1
          /\ log[i].copy <= number)

\* C3 witness: the session has written more copies than were asked for.
C3_Witness ==
  /\ number = 3
  /\ pass = 2
  /\ Cardinality(OkCalls) = 5
  /\ last_input = <<"y", "e", "s">>

\* C4: the step that answers the retry question with anything else ends the
\* session, and from then on the device is neither opened nor written.
C4_DeclineEnds ==
  /\ [][(pc = "try_again" /\ pc' # "try_again" /\ last_input' \notin SpecRetryYes) =>
          pc' = "done" /\ exit_code' = 0 /\ log' = log]_vars
  /\ [][pc = "done" => pc' = "done" /\ log' = log /\ handle' = handle]_vars
  /\ [](pc = "done" => handle = "closed")

\* C4 witness: a failed pass, the answer "YES", and the session over.
C4_Witness ==
  /\ pc = "done"
  /\ last_input = <<"Y", "E", "S">>
  /\ pass \in asked
  /\ Len(log) = 2

\* An entry the locator may return, in the specification's words: its name
\* has the "lp" prefix and its resolved vendor identifier, which exists only
\* when the link resolves and both attribute files are read, is "0a5f".
C5_Matches(e) ==
  /\ e.readable
  /\ Len(e.name) >= 2 /\ e.name[1] = "l" /\ e.name[2] = "p"
  /\ e.device /\ e.canon
  /\ e.idVendor # None /\ e.idProduct # None
  /\ Trim(e.idVendor.val) = <<"0", "a", "5", "f">>

C5_MatchingIndices ==
  IF dir.exists /\ dir.read_dir
  THEN { i \in 1..Len(dir.entries) : C5_Matches(dir.entries[i]) }
  ELSE {}

\* C5: the locator returns /dev/usb/<name> of the first entry, in enumeration
\* order, whose resolved vendor is "0a5f", and "none" exactly when there is
\* no such entry (the root absent, no "lp" entry, or no entry of that vendor).
C5_LocatorFindsFirstMatch ==
  pc = "first_name" =>
    /\ detected_printer = None <=> C5_MatchingIndices = {}
    /\ C5_MatchingIndices # {} =>
         \E i \in C5_MatchingIndices :
           /\ \A j \in C5_MatchingIndices : i <= j
           /\ detected_printer = Some(<<"/dev/usb/">> \o dir.entries[i].name)

\* C5 witness: the entry of vendor ffff comes first, the entry of vendor 0a5f
\* second, and the locator returned the second.
C5_Witness ==
  /\ pc = "first_name"
  /\ Len(dir.entries) = 2
  /\ dir.entries[1].name = lp0
  /\ dir.entries[1].idVendor # None
  /\ Trim(dir.entries[1].idVendor.val) = <<"f", "f", "f", "f">>
  /\ dir.entries[1].device /\ dir.entries[1].canon
  /\ C5_Matches(dir.entries[2])
  /\ detected_printer = Some(<<"/dev/usb/", "l", "p", "1">>)

\* An entry that cannot be used: no device link, no canonical path, or an
\* attribute file that cannot be read.
C6_Unusable(e) ==
  ~e.device \/ ~e.canon \/ e.idVendor = None \/ e.idProduct = None

C6_UsableOnly(d) ==
  [d EXCEPT !.entries = SelectSeq(d.entries, LAMBDA e : ~C6_Unusable(e))]

\* C6: the scan examines every entry of the directory, whatever entries
\* cannot be used, and the locator's result is the result of scanning the
\* directory without its unusable entries.
C6_UnusableEntriesSkipped ==
  pc \in {"detected", "first_name"} =>
    /\ examined = (IF dir.exists /\ dir.read_dir THEN Len(dir.entries) ELSE 0)
    /\ entries = <<>>
    /\ pc = "first_name" => detected_printer = find_zebra_printer(C6_UsableOnly(dir))

\* C6 witness: an entry with no device link comes first, a Zebra printer
\* second, and the locator returned the second.
C6_Witness ==
  /\ pc = "first_name"
  /\ Len(dir.entries) = 2
  /\ dir.entries[1].readable /\ ~dir.entries[1].device
  /\ dir.entries[1].name = lp0
  /\ examined = 2
  /\ detected_printer = Some(<<"/dev/usb/", "l", "p", "1">>)

ScanPcs == {"start", "scan", "detected"}

\* C7: once discovery is over the device path is the located path, or
\* /dev/usb/lp0 with the notice of the default when the locator returned
\* "none"; it is chosen before any prompt, never changes, discovery is not
\* run again, and every call of print_label is made on that path.
C7_PathChosenOnce ==
  /\ [](pc \in ScanPcs => last_input = <<>> /\ log = <<>>)
  /\ [](pc \notin ScanPcs =>
          /\ detected_printer = None =>
               printer_path = <<"/dev/usb/", "l", "p", "0">> /\ notice = "default"
          /\ detected_printer # None =>
               printer_path = detected_printer.val /\ notice = "detected"
          /\ \A i \in 1..Len(log) : log[i].path = printer_path)
  /\ [][pc \notin ScanPcs =>
          /\ pc' \notin ScanPcs
          /\ printer_path' = printer_path
          /\ detected_printer' = detected_printer
          /\ examined' = examined]_vars

\* C7 witness: nothing was located, and both passes went to /dev/usb/lp0.
C7_Witness ==
  /\ detected_printer = None
  /\ notice = "default"
  /\ pass = 2
  /\ Len(log) >= 2
  /\ log[Len(log)].pass = 2
  /\ log[Len(log)].path = <<"/dev/usb/", "l", "p", "0">>

\* A text of the form of an integer: an optional sign and digits.
C8_LooksInteger(s) ==
  LET d == IF s # <<>> /\ Head(s) \in {"+", "-"} THEN Tail(s) ELSE s
  IN d # <<>> /\ \A i \in 1..Len(d) : d[i] \in AsciiDigits

\* A copy count that does not parse: no integer, or 2147483648.
C8_Unparsable(s) ==
  \/ ~C8_LooksInteger(s)
  \/ s = <<"2", "1", "4", "7", "4", "8", "3", "6", "4", "8">>

\* C8: the step that reads a copy count that does not parse ends the program
\* with the diagnostic; the program reads nothing more, and the device was
\* and is never opened or written.
C8_BadCountIsFatal ==
  /\ [][(pc = "num_labels" /\ pc' # "num_labels" /\ C8_Unparsable(last_input')) =>
          /\ pc' = "done"
          /\ panic_msg' = "Please enter a valid integer"
          /\ exit_code' # 0
          /\ log' = <<>>
          /\ handle' = "closed"]_vars
  /\ [][pc = "done" => UNCHANGED <<pc, last_input, log, handle>>]_vars
  /\ [](panic_msg = "Please enter a valid integer" =>
          pc = "done" /\ log = <<>> /\ handle = "closed" /\ asked = {})

\* C8 witness: the copy count "two" ended the program.
C8_Witness ==
  /\ pc = "done"
  /\ last_input = <<"t", "w", "o">>
  /\ panic_msg = "Please enter a valid integer"

HasBarcodeLine(doc) ==
  \E i \in 1..Len(doc) : doc[i].cmd = "^FO^BY3^BCN,70,Y,N,N,A^FD^FS"

\* "y" or "yes" in any letter case.
C9_AnyCaseYes(s) ==
  /\ Len(s) \in {1, 3}
  /\ \A i \in 1..Len(s) : s[i] \in <<{"y", "Y"}, {"e", "E"}, {"s", "S"}>>[i]

\* C9 as stated: the step that answers the barcode question goes on to the
\* barcode prompt, and enables the barcode line, exactly when the answer is
\* "y" or "yes" in any letter case; the document has the barcode line exactly
\* when the barcode is enabled.
C9_AnyCaseAnswer ==
  /\ [][(pc = "barcode_bool" /\ pc' # "barcode_bool") =>
          /\ C9_AnyCaseYes(last_input') <=> pc' = "barcode"
          /\ ~C9_AnyCaseYes(last_input') <=> pc' = "num_labels"
          /\ data'.barcode_bool <=> C9_AnyCaseYes(last_input')]_vars
  /\ [][pc # "barcode_bool" => data'.barcode_bool = data.barcode_bool]_vars
  /\ [](zpl # <<>> => (HasBarcodeLine(zpl) <=> data.barcode_bool))

\* C9 amended: the same with the answers "y" and "Y" alone taken as a yes.
C9_LetterAnswer ==
  /\ [][(pc = "barcode_bool" /\ pc' # "barcode_bool") =>
          /\ last_input' \in {<<"y">>, <<"Y">>} <=> pc' = "barcode"
          /\ last_input' \notin {<<"y">>, <<"Y">>} <=> pc' = "num_labels"
          /\ data'.barcode_bool <=> last_input' \in {<<"y">>, <<"Y">>}]_vars
  /\ [][pc # "barcode_bool" => data'.barcode_bool = data.barcode_bool]_vars
  /\ [](zpl # <<>> => (HasBarcodeLine(zpl) <=> data.barcode_bool))

\* C9 witness: the answer "yes" went on to the copy count with no barcode
\* prompt and the barcode disabled.
C9_Witness ==
  /\ pc = "num_labels"
  /\ last_input = <<"y", "e", "s">>
  /\ ~data.barcode_bool
  /\ data.barcode = <<"0">>

\* A calendar-valid date written DD/MM/YYYY.
C10_ValidDob(d) ==
  /\ Len(d) = 10
  /\ d[3] = "/" /\ d[6] = "/"
  /\ \A i \in {1, 2, 4, 5, 7, 8, 9, 10} : d[i] \in AsciiDigits
  /\ NumVal(SubSeq(d, 4, 5)) \in 1..12
  /\ NumVal(SubSeq(d, 1, 2)) \in
       1..DaysInMonth(NumVal(SubSeq(d, 7, 10)), NumVal(SubSeq(d, 4, 5)))

C11_Digits(s) == SelectSeq(s, LAMBDA c : c \in AsciiDigits)

\* Eight digits that read as DDMMYYYY name a day of the Gregorian calendar.
C11_RealDate(d) ==
  /\ Len(d) = 8
  /\ NumVal(SubSeq(d, 3, 4)) \in 1..12
  /\ NumVal(SubSeq(d, 1, 2)) \in
       1..DaysInMonth(NumVal(SubSeq(d, 5, 8)), NumVal(SubSeq(d, 3, 4)))

\* C11: whatever is typed at the date prompt, normalization decides by the
\* digits alone: when they are eight digits of a real date the date stored is
\* DD/MM/YYYY of those digits and the gender prompt follows, and in every
\* other case the input is rejected and the date prompt is up again.
C11_DigitsDecide ==
  [][pc = "dob" =>
       IF C11_RealDate(C11_Digits(last_input'))
       THEN /\ pc' = "gender"
            /\ data'.dob = SubSeq(C11_Digits(last_input'), 1, 2) \o <<"/">>
                             \o SubSeq(C11_Digits(last_input'), 3, 4) \o <<"/">>
                             \o SubSeq(C11_Digits(last_input'), 5, 8)
       ELSE /\ pc' = "dob"
            /\ data'.dob = <<>>]_vars

\* The label data of the session rendered with the barcode flag the other
\* way round.
C12_Flipped == generate_zpl([data EXCEPT !.barcode_bool = ~data.barcode_bool])

C12_RemoveAt(doc, k) == SubSeq(doc, 1, k - 1) \o SubSeq(doc, k + 1, Len(doc))

\* C12: for the label data of every session, when its document has been
\* rendered and no copy has been sent yet, the document with the barcode
\* enabled is the document without it plus exactly one field, the barcode
\* field with the barcode as typed, every other field being the same at the
\* same place; the document without it has no barcode field and no field
\* whose text is the barcode value.
C12_BarcodeAddsOneField ==
  (zpl # <<>> /\ log = <<>>) =>
    LET flipped == C12_Flipped
        with == IF data.barcode_bool THEN zpl ELSE flipped
        without == IF data.barcode_bool THEN flipped ELSE zpl
    IN /\ Len(with) = Len(without) + 1
       /\ \E k \in 1..Len(with) :
            /\ with[k] = [cmd |-> "^FO^BY3^BCN,70,Y,N,N,A^FD^FS", x |-> 40, y |-> 105,
                          text |-> data.barcode]
            /\ C12_RemoveAt(with, k) = without
       /\ \A i \in 1..Len(without) :
            /\ without[i].cmd # "^FO^BY3^BCN,70,Y,N,N,A^FD^FS"
            /\ without[i].cmd = "^FO^A0N,25,25^FD^FS" => without[i].text # data.barcode
       /\ ~data.barcode_bool => data.barcode = <<"0">>

\* C12 witness: a document rendered with the barcode "a1" as typed.
C12_Witness ==
  /\ zpl # <<>>
  /\ data.barcode_bool
  /\ data.barcode = <<"a", "1">>
  /\ zpl[5].text = <<"a", "1">>

\* C13 as stated: the number of passes of a session has a bound that does
\* not depend on the operator, here one less than the number of passes the
\* operator is willing to ask for.
C13_BoundedPasses == pass < MaxPasses

\* C13: the loop has no bound of its own. A pass makes at most `copies`
\* calls of print_label; a further pass follows only a failed pass whose
\* retry question was asked, so the passes are one more than the questions
\* answered with a yes; every failed pass ends at the retry question; and a
\* session that ended normally ended on a pass with no failure or on an
\* answer that is not a yes.
C13_OperatorBoundsPasses ==
  /\ \A p \in 1..pass :
       /\ Cardinality(CallsOf(p)) <= (IF number > 0 THEN number ELSE 0)
       /\ p < pass => p \in asked /\ FailedCallsOf(p) # {}
  /\ asked \subseteq 1..pass
  /\ (pass >= 1 /\ FailedCallsOf(pass) # {}) =>
       /\ pc \in {"try_again", "done"}
       /\ pass \in asked
  /\ (pc = "done" /\ pass >= 1 /\ panic_msg = "") =>
       \/ FailedCallsOf(pass) = {} /\ pass \notin asked
       \/ pass \in asked /\ last_input \notin SpecRetryYes

\* C13 witness: every pass the operator asked for has failed, and the retry
\* question is up once more.
C13_Witness ==
  /\ pass = MaxPasses
  /\ pc = "try_again"
  /\ asked = 1..MaxPasses
  /\ \A p \in 1..MaxPasses : FailedCallsOf(p) # {}

\* C14 as stated: whenever the program has terminated, its exit status is 0.
C14_AlwaysZero == pc = "done" => exit_code = 0

\* C14: the program has an exit status only when it has terminated. The
\* status is 0 exactly when main returned (after a pass with no failure, a
\* declined retry, or a copy count that is not positive) and 101 exactly
\* when it panicked; it panics on a copy count that does not parse and on a
\* date whose numeric characters are sliced off a character boundary, both
\* before anything is written.
C14_ExitStatus ==
  /\ pc # "done" => exit_code = -1 /\ panic_msg = ""
  /\ pc = "done" =>
       /\ exit_code \in {0, 101}
       /\ exit_code = 0 <=> panic_msg = ""
       /\ exit_code = 0 =>
            /\ pass >= 1
            /\ FailedCallsOf(pass) = {} \/ last_input \notin SpecRetryYes
       /\ exit_code = 101 =>
            /\ log = <<>> /\ zpl = <<>> /\ pass = 0
            /\ \/ panic_msg = "Please enter a valid integer" /\ C8_Unparsable(last_input)
               \/ /\ panic_msg = "byte index is not a char boundary"
                  /\ \E i \in 1..Len(last_input) : last_input[i] \in WideNumerics

\* C14 witness: the copy count "2.5" ended the program with status 101.
C14_Witness ==
  /\ pc = "done"
  /\ exit_code = 101
  /\ last_input = <<"2", ".", "5">>
  /\ data.dob # <<>>

\* The passes in which an earlier copy was written and a later copy failed.
C15_PartialPasses ==
  { p \in 1..pass : FailedCallsOf(p) # {} /\ CallsOf(p) \ FailedCallsOf(p) # {} }

\* C15 as stated: a success is terminal, so a pass in which a copy was
\* written is not followed by the retry question.
C15_SuccessIsTerminal ==
  \A p \in 1..pass : CallsOf(p) \ FailedCallsOf(p) # {} => p \notin asked

\* C15: a pass in which an earlier copy is written and a later copy fails
\* ends with the flag set and the retry question asked, in every execution;
\* when the loop is left the flag tells whether the pass had a failure, and a
\* session ends without the question only after a pass in which every one of
\* the `copies` calls succeeded.
C15_PartialPassPrompts ==
  /\ \A p \in C15_PartialPasses :
       /\ p \in asked
       /\ p = pass => unsuccsessful /\ pc \in {"try_again", "done"}
  /\ (pc \in {"try_again", "done"} /\ pass >= 1) =>
       (unsuccsessful <=> FailedCallsOf(pass) # {})
  /\ (pc = "done" /\ pass >= 1 /\ pass \notin asked) =>
       /\ FailedCallsOf(pass) = {}
       /\ Cardinality(CallsOf(pass)) = (IF number > 0 THEN number ELSE 0)

\* C15 witness: of three copies the first was written and the second failed;
\* the question was asked and declined, and the third was never tried.
C15_Witness ==
  /\ pc = "done"
  /\ number = 3
  /\ pass = 1
  /\ Len(log) = 2
  /\ log[1].res = "ok"
  /\ log[2].res # "ok"
  /\ asked = {1}
  /\ last_input = <<"n">>

\* The prompts at which input is still being collected.
C16_InputPcs ==
  {"first_name", "last_name", "dob", "gender", "barcode_bool", "barcode", "num_labels"}

\* C16: generate_zpl is called at most once, not while input is being
\* collected and before the first call of print_label; every call of
\* print_label of the session, whatever its copy and pass, was given the one
\* document, the rendering of the label data; and the date line of that
\* document carries the timestamp stored in the label data when it was
\* constructed, whatever the clock says later.
C16_RenderedOnce ==
  /\ rendered <= 1
  /\ (pc \in ScanPcs \cup C16_InputPcs) => rendered = 0 /\ zpl = <<>> /\ log = <<>>
  /\ (pc \in PrintingPcs \cup {"try_again"} \/ log # <<>>) => rendered = 1 /\ zpl # <<>>
  /\ \A i \in 1..Len(log) : log[i].doc = zpl
  /\ (zpl # <<>> /\ log = <<>>) => zpl = generate_zpl(data)
  /\ zpl # <<>> =>
       zpl[4] = TextField(40, 80, <<"D", "a", "t", "e", ":", " ">> \o data.current_datetime)

\* C16 witness: the timestamp was taken before midnight, the clock has moved
\* on, and copies have been sent in two passes.
C16_Witness ==
  /\ data.current_datetime = FormatNow(0)
  /\ clock = 1
  /\ pass = 2
  /\ CallsOf(1) # {}
  /\ CallsOf(2) # {}
  /\ \A i \in 1..Len(log) : log[i].doc = zpl

\* C17: print_label's file is open exactly between a successful open and
\* the end of the same call: it is closed when the next copy is about to be
\* opened, while the retry question is up and when the session is over,
\* whether the call ended in success or in a failed open, write or flush. A
\* file is opened only by the open step of a call, the steps of a call come
\* in the order open, write, flush, and only a flush completes a copy.
C17_HandlePerCopy ==
  /\ [](handle \in {"open", "closed"})
  /\ [](handle = "open" <=> pc \in {"print_write", "print_flush"})
  /\ [](\A i \in 1..Len(log) : log[i].res \in {"ok", "open_err", "write_err", "flush_err"})
  /\ [][/\ (handle = "closed" /\ handle' = "open") =>
             pc = "print_open" /\ pc' = "print_write"
        /\ (pc = "print_open" /\ pc' # pc) => pc' \in {"print_write", "try_again"}
        /\ (pc = "print_write" /\ pc' # pc) => pc' \in {"print_flush", "try_again"}
        /\ (pc = "print_flush" /\ pc' # pc) =>
             /\ pc' \in {"print_open", "try_again", "done"}
             /\ handle' = "closed"
        /\ (pc = "print_write" /\ pc' = "print_flush") => zpl' = zpl /\ handle' = "open"
        /\ (log' # log /\ log'[Len(log')].res = "ok") => pc = "print_flush"
        /\ log' # log => handle' = "closed"]_vars

\* C17 witness: in the second pass a copy was written and the flush of the
\* next one failed; the retry question is up and the file is closed.
C17_Witness ==
  /\ pc = "try_again"
  /\ pass = 2
  /\ handle = "closed"
  /\ log[Len(log)].res = "flush_err"
  /\ log[Len(log)].copy = 2
  /\ log[Len(log) - 1].res = "ok"

\* The entries whose vendor attribute reads as the filter "0a5f".
C18_VendorMatches(e) ==
  /\ e.idVendor # None
  /\ Trim(e.idVendor.val) = <<"0", "a", "5", "f">>

\* C18: every candidate of the scan comes from an entry of the directory
\* whose idVendor and idProduct were both read, and carries that entry's
\* vendor; the locator never returns the path of an entry that lacks either
\* attribute, and returns "none" when every entry of the filter's vendor
\* lacks its idProduct.
C18_BothAttributesNeeded ==
  /\ \A k \in 1..Len(printers) :
       \E i \in 1..Len(dir.entries) :
         /\ printers[k].device_path = <<"/dev/usb/">> \o dir.entries[i].name
         /\ dir.entries[i].idVendor # None
         /\ dir.entries[i].idProduct # None
         /\ printers[k].vendor_id = Trim(dir.entries[i].idVendor.val)
  /\ pc = "first_name" =>
       /\ \A i \in 1..Len(dir.entries) :
            (dir.entries[i].idVendor = None \/ dir.entries[i].idProduct = None) =>
              detected_printer # Some(<<"/dev/usb/">> \o dir.entries[i].name)
       /\ (\A i \in 1..Len(dir.entries) :
             C18_VendorMatches(dir.entries[i]) => dir.entries[i].idProduct = None)
            => detected_printer = None

\* C18 witness: the only entry is lp1 of vendor 0a5f, its device resolves,
\* its idProduct cannot be read, and the locator returned "none".
C18_Witness ==
  /\ pc = "first_name"
  /\ dir.entries = << DirEntry(lp1, TRUE, TRUE, TRUE, Some(ZebraText), None) >>
  /\ examined = 1
  /\ printers = <<>>
  /\ detected_printer = None

\* A copy count that parses as an integer that is not positive.
C19_NotPositive(s) ==
  s \in { <<"0">>, <<"-", "1">> }

\* C19: the step that reads a copy count of zero or less renders the
\* document and ends the session at once with status 0: print_label is never
\* called, the file is never opened, nothing is reported, and the retry
\* question is never asked; this holds of every state of such a session.
C19_NoCopiesNoWrites ==
  /\ [][(pc = "num_labels" /\ pc' # pc /\ C19_NotPositive(last_input')) =>
          /\ number' <= 0
          /\ pc' = "done"
          /\ exit_code' = 0
          /\ panic_msg' = ""
          /\ ~unsuccsessful']_vars
  /\ []((pass >= 1 /\ number <= 0) =>
          /\ pc = "done"
          /\ C19_NotPositive(last_input)
          /\ exit_code = 0
          /\ log = <<>>
          /\ stderr = <<>>
          /\ asked = {}
          /\ handle = "closed"
          /\ x = 0
          /\ pass = 1)

\* C19 witness: the copy count "-1" ended the session with nothing written.
C19_Witness ==
  /\ pc = "done"
  /\ number = -1
  /\ last_input = <<"-", "1">>
  /\ exit_code = 0
  /\ log = <<>>
  /\ zpl # <<>>

====
